---- MODULE Spec2Model ----
(***************************************************************************)
(* Metropolis-Hastings kernel and driver of the MCMC cookbook notebook     *)
(* (docs/cookbook/inactive/inference/mcmc.ipynb): metropolis_hastings_move *)
(* and mh, run for one chain (Spec) and for two chains whose kernel steps  *)
(* interleave (SpecPar).                                                   *)
(***************************************************************************)
EXTENDS Integers, Sequences, FiniteSets, TLC

\* ------------------------------------------------------------------ bounds
\* largest number of kernel applications asked of the driver (num_updates)
MaxN == 2
\* largest finite magnitude of a floating-point weight; beyond it a result
\* overflows to an infinity
MaxFinite == 2
\* the uniform draw takes the values 0/(MaxU+1), 1/(MaxU+1) .. MaxU/(MaxU+1)
MaxU == 1
\* largest total number of kernel applications asked of two parallel chains
MaxTotal == 4

\* ------------------------------------------------- floating-point weights
\* A weight is an IEEE float: finite, +inf, -inf or NaN.
Fin(n) == [k |-> "fin", v |-> n]
PosInf == [k |-> "pinf", v |-> 0]
NegInf == [k |-> "ninf", v |-> 0]
NaN == [k |-> "nan", v |-> 0]

\* a finite result out of range overflows to the infinity of its sign
FRound(n) ==
  IF n > MaxFinite THEN PosInf ELSE IF n < -MaxFinite THEN NegInf ELSE Fin(n)

FNeg(x) ==
  CASE x.k = "fin" -> Fin(-x.v)
    [] x.k = "pinf" -> NegInf
    [] x.k = "ninf" -> PosInf
    [] OTHER -> NaN

\* x + y of floats: NaN is absorbing, inf + (-inf) is NaN
FAdd(x, y) ==
  CASE x.k = "nan" \/ y.k = "nan" -> NaN
    [] x.k = "fin" /\ y.k = "fin" -> FRound(x.v + y.v)
    [] x.k = "fin" -> y
    [] y.k = "fin" -> x
    [] x.k = y.k -> x
    [] OTHER -> NaN

\* x - y of floats
FSub(x, y) == FAdd(x, FNeg(y))

\* x < y of floats: every comparison with NaN is false
FLess(x, y) ==
  CASE x.k = "nan" \/ y.k = "nan" -> FALSE
    [] x.k = "fin" /\ y.k = "fin" -> x.v < y.v
    [] x.k = "ninf" -> y.k # "ninf"
    [] x.k = "pinf" -> FALSE
    [] OTHER -> y.k = "pinf"

\* jnp.log of a uniform draw u/(MaxU+1) in [0, 1): log 0 is -inf, every
\* other draw has a finite, strictly negative logarithm, increasing in u
JLog(u) == IF u = 0 THEN NegInf ELSE Fin(u - (MaxU + 1))

\* ------------------------------------------------------------- PRNG keys
\* A key is the path of splits that derived it from a root seed.
\* jax.random.split(key, n): n new keys, a deterministic function of key
Split(key, n) == [j \in 1..n |-> Append(key, j - 1)]

\* the outcomes of one random draw
Uniforms == 0..MaxU

\* --------------------------------------------------- traces, choice maps
Addr == {"a", "b", "y"}
Val == {0, 1}

\* a choice map: a function from some addresses to values
EmptyChoices == [x \in {} |-> 0]
ChoiceMaps(D) == [D -> Val]

\* Trace: the arguments and the realized choices of one execution
Trace(args, choices) == [args |-> args, choices |-> choices]

\* ------------------------------------------- model and proposal (stubs)
\* A model is described by the importance weight its update returns and by
\* the values of "a" it rejects with an error; a proposal by the addresses
\* it proposes at, its forward and backward weights and the operation, if
\* any, that raises.
Weights == {NegInf, Fin(-1), Fin(0), Fin(1), PosInf}
ModelStub(w, bad) == [w |-> w, bad |-> bad]
ProposalStub(addrs, fw, bw, raises) ==
  [addrs |-> addrs, fw |-> fw, bw |-> bw, raises |-> raises]

\* Diff.no_change(model_args): the arguments, tagged as unchanged
NoChange(model_args) == [primal |-> model_args, tag |-> "NoChange"]

\* proposal.propose(key, args): the proposed choices, drawn with key for
\* the trace args[1], and their forward log-weight
Propose(proposal, key, args, S) ==
  IF proposal.raises = "propose" /\ args[1].choices["a"] = 1
  THEN [raised |-> TRUE, choices |-> EmptyChoices, weight |-> NaN]
  ELSE [raised |-> FALSE, choices |-> S[<<key, args[1]>>],
        weight |-> proposal.fw]

\* an update that keeps the edits and resets every other address
UpdateRegenerate(model, key, trace, edits, argdiffs) ==
  LET choices == [x \in Addr |-> IF x \in DOMAIN edits THEN edits[x] ELSE 0]
  IN IF choices["a"] \in model.bad
     THEN [raised |-> TRUE, new_trace |-> trace, weight |-> NaN,
           discard |-> EmptyChoices]
     ELSE [raised |-> FALSE,
           new_trace |-> Trace(argdiffs.primal, choices),
           weight |-> model.w,
           discard |-> [x \in DOMAIN edits |-> trace.choices[x]]]

\* model.update(key, trace, edits, argdiffs): the trace with the edits
\* written over its choices and the arguments kept, the importance weight
\* and the discard (the values the edits overwrote)
Update(model, key, trace, edits, argdiffs) ==
  LET choices == [x \in Addr |->
                    IF x \in DOMAIN edits THEN edits[x] ELSE trace.choices[x]]
  IN IF choices["a"] \in model.bad
     THEN [raised |-> TRUE, new_trace |-> trace, weight |-> NaN,
           discard |-> EmptyChoices]
     ELSE [raised |-> FALSE,
           new_trace |-> Trace(argdiffs.primal, choices),
           weight |-> model.w,
           discard |-> [x \in DOMAIN edits |-> trace.choices[x]]]

\* proposal.assess(choices, args): the log-weight the proposal gives to
\* proposing choices from the trace args[1]
Assess(proposal, choices, args) ==
  IF proposal.raises = "assess" /\ args[1].choices["a"] = 1
  THEN [raised |-> TRUE, weight |-> NaN]
  ELSE [raised |-> FALSE, weight |-> proposal.bw]

\* ----------------------------------------------------------- MH kernel
\* the key the forward proposal consumes and the key the uniform draw
\* consumes, of a kernel step given key
ProposeKey(key) == Split(key, 2)[1]
UpdateKey(key) == Split(key, 2)[2]
UniformKey(key) == Split(ProposeKey(key), 2)[2]

\* the acceptance log-ratio with the forward and backward weights swapped
AlphaSwapped(weight, fwd_weight, bwd_weight) ==
  FAdd(FSub(weight, bwd_weight), fwd_weight)

\* the acceptance log-ratio
Alpha(weight, fwd_weight, bwd_weight) ==
  FAdd(FSub(weight, fwd_weight), bwd_weight)

\* the accept test with <= in place of <
AcceptLax(u, alpha) == FLess(JLog(u), alpha) \/ JLog(u) = alpha

\* the accept test written as "alpha is not below log u"
AcceptNotBelow(u, alpha) == ~FLess(alpha, JLog(u))

\* the accept test of one step
Accept(u, alpha) == FLess(JLog(u), alpha)

\* jax.lax.cond(pred, lambda: new_trace, lambda: trace)
Cond(pred, new_trace, trace) == IF pred THEN new_trace ELSE trace

\* a chain state that loses the observation constraints
CarryDropObs(trace, model, proposal, proposal_args, observations) ==
  [trace |-> trace, model |-> model, proposal |-> proposal,
   proposal_args |-> proposal_args, observations |-> EmptyChoices]

\* the chain state mh_args
Carry(trace, model, proposal, proposal_args, observations) ==
  [trace |-> trace, model |-> model, proposal |-> proposal,
   proposal_args |-> proposal_args, observations |-> observations]

\* a record that is the candidate trace whatever the accept test said
RecordCandidate(ret_fun, new_trace) == new_trace

\* the chain record a step emits
Record(ret_fun, new_trace) == ret_fun

\* an error caught in the kernel: the step returns its input unchanged
OutcomeRecover(failed, done, mh_args) ==
  IF failed = "none" THEN done
  ELSE [raised |-> "none", carry |-> mh_args, y |-> mh_args.trace,
        locals |-> [trace |-> mh_args.trace, ret_fun |-> mh_args.trace]]

\* how a kernel step ends: an error of the model or the proposal is not
\* caught, it leaves the kernel and the step returns nothing
Outcome(failed, done, mh_args) ==
  IF failed = "none" THEN done ELSE [raised |-> failed]

\* metropolis_hastings_move(mh_args, key), with S the proposal's sampler
\* and U the uniform generator: the new chain state, the chain record, the
\* step's local values and, when the model or the proposal raised, the
\* operation that did
metropolis_hastings_move(mh_args, key, S, U) ==
  LET trace == mh_args.trace
      model == mh_args.model
      proposal == mh_args.proposal
      proposal_args == mh_args.proposal_args
      observations == mh_args.observations
      model_args == trace.args
      argdiffs == NoChange(model_args)
      proposal_args_forward == <<trace>> \o proposal_args
      fwd == Propose(proposal, ProposeKey(key), proposal_args_forward, S)
      upd == Update(model, UpdateKey(key), trace, fwd.choices, argdiffs)
      new_trace == upd.new_trace
      proposal_args_backward == <<new_trace>> \o proposal_args
      bwd == Assess(proposal, upd.discard, proposal_args_backward)
      alpha == Alpha(upd.weight, fwd.weight, bwd.weight)
      u == U[UniformKey(key)]
      pred == Accept(u, alpha)
      ret_fun == Cond(pred, new_trace, trace)
      failed == CASE fwd.raised -> "propose"
                  [] upd.raised -> "update"
                  [] bwd.raised -> "assess"
                  [] OTHER -> "none"
  IN Outcome(failed,
       [raised |-> "none",
        carry |-> Carry(ret_fun, model, proposal, proposal_args,
                        observations),
        y |-> Record(ret_fun, new_trace),
        locals |-> [trace |-> trace, fwd_choices |-> fwd.choices,
                    fwd_weight |-> fwd.weight, new_trace |-> new_trace,
                    weight |-> upd.weight, discard |-> upd.discard,
                    bwd_weight |-> bwd.weight, alpha |-> alpha,
                    u |-> u, pred |-> pred, ret_fun |-> ret_fun,
                    propose_key |-> ProposeKey(key),
                    update_key |-> UpdateKey(key),
                    split_key |-> ProposeKey(key),
                    uniform_key |-> UniformKey(key)]],
       mh_args)

\* ------------------------------------------------------------ MH driver
\* one key too many
MhKeysOffByOne(key, num_updates) == Split(key, num_updates + 1)

\* jax.random.split(key, num_updates): one key per kernel application
MhKeys(key, num_updates) == Split(key, num_updates)

\* the first record returned in place of the last carry's trace
MhResultFirst(last_carry, chain) ==
  [trace |-> IF chain = <<>> THEN last_carry.trace ELSE chain[1],
   chain |-> chain]

\* what mh returns: last_carry[0] and the stacked chain records
MhResult(last_carry, chain) == [trace |-> last_carry.trace, chain |-> chain]

\* ---------------------------------------------------------------- state
VARIABLES
  model,          \* the model handed to every chain
  proposal,       \* the proposal handed to every chain
  proposal_args,  \* the proposal arguments handed to every chain
  observations,   \* the observation constraints handed to every chain
  call,           \* per chain: the trace, key and num_updates given to mh
  pc,             \* per chain: "call", "scan", "returned" or "raised"
  mh_keys,        \* per chain: the keys of the scan
  carry,          \* per chain: the chain state carried by the scan, if any
  mh_chain,       \* per chain: the chain records emitted so far
  moves,          \* per chain: the local values of every completed step
  raised,         \* per chain: the step and operation whose error ended it
  result,         \* per chain: what mh returned, if it has returned
  sampler,        \* the samples the proposal has drawn, by key and trace
  uniform,        \* the uniform draws made, by key
  inference       \* per chain: the arguments and local values of the
                  \* run_inference that called mh, if one did

vars == <<model, proposal, proposal_args, observations, call, pc, mh_keys,
          carry, mh_chain, moves, raised, result, sampler, uniform,
          inference>>

\* ----------------------------------------------------------- the inputs
Seeds == {<<0>>, <<1>>}
ModelArgs == {<<5>>}
Models ==
  {ModelStub(w, {}) : w \in Weights} \cup {ModelStub(Fin(0), {1})}
Proposals ==
  {ProposalStub({"a"}, fw, bw, "none") : fw \in Weights, bw \in Weights}
  \cup {ProposalStub(ad, Fin(0), Fin(0), r) :
          ad \in {{"a"}, {"a", "y"}}, r \in {"none", "propose", "assess"}}
ProposalArgs == {<<>>}
Observations == {EmptyChoices, [x \in {"y"} |-> 1]}

\* the initial trace comes from a constrained initialization: it agrees
\* with the observations
Agrees(trace, obs) == \A x \in DOMAIN obs : trace.choices[x] = obs[x]
InitTraces(obs) ==
  {t \in {Trace(x, [a |-> va, b |-> 0, y |-> 1]) :
            x \in ModelArgs, va \in Val} : Agrees(t, obs)}
Calls(traces, seeds) ==
  [trace : traces, key : seeds, num_updates : 0..MaxN]

InitChains(calls) ==
  /\ call \in calls
  /\ pc = [c \in DOMAIN call |-> "call"]
  /\ mh_keys = [c \in DOMAIN call |-> <<>>]
  /\ carry = [c \in DOMAIN call |-> <<>>]
  /\ mh_chain = [c \in DOMAIN call |-> <<>>]
  /\ moves = [c \in DOMAIN call |-> <<>>]
  /\ raised = [c \in DOMAIN call |-> <<>>]
  /\ result = [c \in DOMAIN call |-> <<>>]
  /\ sampler = <<>>
  /\ uniform = <<>>
  /\ inference = [c \in DOMAIN call |-> <<>>]

\* one chain
Init ==
  /\ model \in Models
  /\ proposal \in Proposals
  /\ proposal_args \in ProposalArgs
  /\ observations \in Observations
  /\ InitChains([{"A"} -> Calls(InitTraces(observations), {<<0>>})])

\* two chains on one model, proposal and observations, started from one
\* trace; the second chain has the seed of the first or another one
ModelsPar == {ModelStub(Fin(0), {})}
ProposalsPar ==
  {ProposalStub({"a"}, Fin(1), Fin(0), "none"),
   ProposalStub({"a"}, Fin(1), Fin(0), "assess")}
ObservationsPar == {[x \in {"y"} |-> 1]}
InitTracesPar == {Trace(<<5>>, [a |-> 0, b |-> 0, y |-> 1])}
InitPar ==
  /\ model \in ModelsPar
  /\ proposal \in ProposalsPar
  /\ proposal_args \in ProposalArgs
  /\ observations \in ObservationsPar
  /\ InitChains({f \in [{"A", "B"} -> Calls(InitTracesPar, Seeds)] :
                   /\ f["A"].key = <<0>>
                   /\ f["A"].num_updates + f["B"].num_updates <= MaxTotal})

\* ---------------------------------------------------------- operations
\* mh, up to the scan: split the key, build the initial chain state
MhBegin(c) ==
  /\ pc[c] = "call"
  /\ mh_keys' = [mh_keys EXCEPT ![c] =
                   MhKeys(call[c].key, call[c].num_updates)]
  /\ carry' = [carry EXCEPT ![c] =
                 <<Carry(call[c].trace, model, proposal, proposal_args,
                         observations)>>]
  /\ pc' = [pc EXCEPT ![c] = "scan"]
  /\ UNCHANGED <<model, proposal, proposal_args, observations, call,
                 mh_chain, moves, raised, result, sampler, uniform,
                 inference>>

\* every step applied to the initial chain state
StepInputInit(c) ==
  Carry(call[c].trace, model, proposal, proposal_args, observations)

\* one chain state shared by all chains
StepInputShared(c) == IF carry["A"] = <<>> THEN carry[c][1] ELSE carry["A"][1]

\* the chain state a step of chain c is applied to
StepInput(c) == carry[c][1]

\* a key taken from ambient generator state: the number of draws made
StepKeyAmbient(c) == <<9, Cardinality(DOMAIN uniform)>>

\* the key of the next step of chain c
StepKey(c) == mh_keys[c][Len(mh_chain[c]) + 1]

\* one iteration of jax.lax.scan: metropolis_hastings_move applied to the
\* carried chain state and the next key
ScanStep(c) ==
  /\ pc[c] = "scan"
  /\ Len(mh_chain[c]) < Len(mh_keys[c])
  /\ LET mh_args == StepInput(c)
         key == StepKey(c)
         sk == <<ProposeKey(key), mh_args.trace>>
         uk == UniformKey(key)
     IN \E fc \in ChoiceMaps(mh_args.proposal.addrs), u \in Uniforms :
          /\ sk \in DOMAIN sampler => fc = sampler[sk]
          /\ uk \in DOMAIN uniform => u = uniform[uk]
          /\ LET S == (sk :> fc) @@ sampler
                 U == (uk :> u) @@ uniform
                 r == metropolis_hastings_move(mh_args, key, S, U)
             IN IF r.raised = "none"
                THEN /\ carry' = [carry EXCEPT ![c] = <<r.carry>>]
                     /\ mh_chain' = [mh_chain EXCEPT ![c] = Append(@, r.y)]
                     /\ moves' = [moves EXCEPT ![c] = Append(@, r.locals)]
                     /\ sampler' = S
                     /\ uniform' = U
                     /\ UNCHANGED <<pc, raised>>
                ELSE /\ pc' = [pc EXCEPT ![c] = "raised"]
                     /\ raised' = [raised EXCEPT ![c] =
                                     <<[op |-> r.raised,
                                        step |-> Len(mh_chain[c]) + 1]>>]
                     /\ sampler' = IF r.raised = "propose" THEN sampler ELSE S
                     /\ UNCHANGED <<carry, mh_chain, moves, uniform>>
  /\ UNCHANGED <<model, proposal, proposal_args, observations, call,
                 mh_keys, result, inference>>

\* the scan is over: mh returns last_carry[0] and the chain
MhReturn(c) ==
  /\ pc[c] = "scan"
  /\ Len(mh_chain[c]) = Len(mh_keys[c])
  /\ result' = [result EXCEPT ![c] = <<MhResult(carry[c][1], mh_chain[c])>>]
  /\ pc' = [pc EXCEPT ![c] = "returned"]
  /\ UNCHANGED <<model, proposal, proposal_args, observations, call,
                 mh_keys, carry, mh_chain, moves, raised, sampler, uniform,
                 inference>>

Next ==
  \/ \E c \in DOMAIN pc : MhBegin(c)
  \/ \E c \in DOMAIN pc : ScanStep(c)
  \/ \E c \in DOMAIN pc : MhReturn(c)

Spec == Init /\ [][Next]_vars

SpecPar == InitPar /\ [][Next]_vars

\* ------------------------------------------- run_inference and custom_mh
\* model.importance(key, constraints, args): a trace of the model whose
\* constrained addresses hold the constraints and whose other addresses
\* hold the values drawn
Importance(m, key, constraints, args, drawn) ==
  Trace(args, [x \in Addr |->
                 IF x \in DOMAIN constraints THEN constraints[x]
                 ELSE drawn[x]])

\* key, subkey1, subkey2 = jax.random.split(key, 3)
InferenceKeys(key) == Split(key, 3)

\* the key run_inference gives to model.importance: subkey1
ImportanceKey(keys) == keys[2]

\* the initialization key handed on to the driver
DriverKeyReused(keys) == keys[2]

\* the key run_inference gives to custom_mh: subkey2
DriverKey(keys) == keys[3]

\* a proposal that proposes at "b" as well
PropAddrsWide == {"a", "b"}

\* the addresses prop proposes at
PropAddrs == {"a"}

\* prop, the proposal custom_mh hands to mh, with the weights it may give
Props ==
  {ProposalStub(PropAddrs, fw, bw, "none") :
     fw \in {Fin(0), Fin(1)}, bw \in {Fin(0), Fin(1)}}

\* custom_mh(trace, model, observations, key, num_updates): mh with prop
\* and no proposal arguments; the arguments of that call
CustomMh(trace, key, num_updates) ==
  [trace |-> trace, key |-> key, num_updates |-> num_updates]

ModelsInf == {ModelStub(Fin(0), {}), ModelStub(Fin(-1), {})}
RootKeys == {Split(<<0>>, 2)[2]}
InferenceArgs ==
  [model_args : ModelArgs, key : RootKeys, num_samples : 0..MaxN]

\* run_inference is called; mh is not yet
InitInf ==
  /\ model \in ModelsInf
  /\ proposal \in Props
  /\ proposal_args = <<>>
  /\ observations \in Observations
  /\ inference \in [{"A"} -> [args : InferenceArgs, locals : {<<>>}]]
  /\ call = [c \in {"A"} |-> <<>>]
  /\ pc = [c \in {"A"} |-> "run_inference"]
  /\ mh_keys = [c \in {"A"} |-> <<>>]
  /\ carry = [c \in {"A"} |-> <<>>]
  /\ mh_chain = [c \in {"A"} |-> <<>>]
  /\ moves = [c \in {"A"} |-> <<>>]
  /\ raised = [c \in {"A"} |-> <<>>]
  /\ result = [c \in {"A"} |-> <<>>]
  /\ sampler = <<>>
  /\ uniform = <<>>

\* run_inference up to its call of mh: split the key, draw the initial
\* trace with model.importance, call custom_mh
RunInference(c) ==
  /\ pc[c] = "run_inference"
  /\ \E drawn \in ChoiceMaps(Addr) :
       LET args == inference[c].args
           keys == InferenceKeys(args.key)
           tr == Importance(model, ImportanceKey(keys), observations,
                            args.model_args, drawn)
       IN /\ inference' = [inference EXCEPT ![c].locals =
                             <<[keys |-> keys,
                                importance_key |-> ImportanceKey(keys),
                                tr |-> tr]>>]
          /\ call' = [call EXCEPT ![c] =
                        CustomMh(tr, DriverKey(keys), args.num_samples)]
  /\ pc' = [pc EXCEPT ![c] = "call"]
  /\ UNCHANGED <<model, proposal, proposal_args, observations, mh_keys,
                 carry, mh_chain, moves, raised, result, sampler, uniform>>

NextInf ==
  \/ \E c \in DOMAIN pc : RunInference(c)
  \/ \E c \in DOMAIN pc : MhBegin(c)
  \/ \E c \in DOMAIN pc : ScanStep(c)
  \/ \E c \in DOMAIN pc : MhReturn(c)

SpecInf == InitInf /\ [][NextInf]_vars

\* ------------------------------------------------------------ properties
Chains == DOMAIN pc
Steps(c) == DOMAIN moves[c]

\* the value of ln(u) for the draw u/(MaxU+1): "neg" for u = 0, else the
\* finite negative number u - MaxU - 1
LnFinite(u) == u - MaxU - 1

\* the kind and value of x - y + z evaluated left to right in floating
\* point, from the kinds and values of x, y, z
Sum2(kx, vx, ky, vy) ==
  IF kx = "nan" \/ ky = "nan" THEN <<"nan", 0>>
  ELSE IF kx = "fin" /\ ky = "fin"
       THEN (IF vx + vy > MaxFinite THEN <<"pinf", 0>>
             ELSE IF vx + vy < -MaxFinite THEN <<"ninf", 0>>
             ELSE <<"fin", vx + vy>>)
  ELSE IF kx # "fin" /\ ky # "fin" /\ kx # ky THEN <<"nan", 0>>
  ELSE IF kx = "fin" THEN <<ky, 0>> ELSE <<kx, 0>>
Opposite(k) == IF k = "pinf" THEN "ninf" ELSE IF k = "ninf" THEN "pinf" ELSE k
LogRatio(w, fw, bw) ==
  LET d == Sum2(w.k, w.v, Opposite(fw.k), -fw.v)
  IN Sum2(d[1], d[2], bw.k, bw.v)

\* ln(u) < w - fw + bw
LnBelow(u, w, fw, bw) ==
  LET al == LogRatio(w, fw, bw)
  IN CASE al[1] = "pinf" -> TRUE
       [] al[1] = "fin" -> u = 0 \/ LnFinite(u) < al[2]
       [] OTHER -> FALSE

\* C1: every kernel step accepts the candidate trace if and only if
\* ln(u) < w - fw + bw, for the importance weight w, forward weight fw,
\* backward weight bw and uniform draw u of the step.
C1_AcceptIff ==
  \A c \in Chains : \A i \in Steps(c) :
    LET m == moves[c][i]
    IN IF LnBelow(m.u, m.weight, m.fwd_weight, m.bwd_weight)
       THEN mh_chain[c][i] = m.new_trace /\ m.ret_fun = m.new_trace
       ELSE mh_chain[c][i] = m.trace /\ m.ret_fun = m.trace

\* a chain that accepted a candidate differing from its input and rejected
\* another one, both with finite weights
C1_Witness ==
  \E c \in Chains : \E i, j \in Steps(c) :
    /\ moves[c][i].new_trace # moves[c][i].trace
    /\ moves[c][j].new_trace # moves[c][j].trace
    /\ mh_chain[c][i] = moves[c][i].new_trace
    /\ mh_chain[c][j] = moves[c][j].trace
    /\ moves[c][i].alpha.k = "fin"
    /\ moves[c][j].alpha.k = "fin"

\* C3: mh called with num_updates = N applies the kernel exactly N times
\* and returns exactly N chain records; with N = 0 none of either.
C3_ChainLength ==
  \A c \in Chains :
    /\ Len(moves[c]) <= call[c].num_updates
    /\ pc[c] = "returned" =>
         /\ Len(moves[c]) = call[c].num_updates
         /\ Len(result[c][1].chain) = call[c].num_updates
         /\ call[c].num_updates = 0 => result[c][1].chain = <<>>

C3_Witness ==
  \E c \in Chains :
    /\ pc[c] = "returned"
    /\ call[c].num_updates >= 2
    /\ Len(result[c][1].chain) = call[c].num_updates

\* C4: the final trace mh returns is the last chain record when N >= 1 and
\* the initial trace when N = 0.
C4_FinalTrace ==
  \A c \in Chains :
    pc[c] = "returned" =>
      LET r == result[c][1]
      IN IF call[c].num_updates = 0
         THEN r.trace = call[c].trace
         ELSE r.trace = r.chain[Len(r.chain)]

\* mh returned a chain whose last record differs from its first and from
\* the initial trace
C4_Witness ==
  \E c \in Chains :
    /\ pc[c] = "returned"
    /\ Len(result[c][1].chain) >= 2
    /\ result[c][1].chain[Len(result[c][1].chain)] # result[c][1].chain[1]
    /\ result[c][1].trace # call[c].trace

\* C5: the i-th kernel application uses the i-th key and is given the
\* (i-1)-th record as its current trace, the initial trace for i = 1; its
\* output is the i-th record.
C5_Sequential ==
  \A c \in Chains : \A i \in Steps(c) :
    /\ moves[c][i].trace = IF i = 1 THEN call[c].trace ELSE mh_chain[c][i - 1]
    /\ moves[c][i].propose_key = ProposeKey(Split(call[c].key,
                                                  call[c].num_updates)[i])
    /\ mh_chain[c][i] = moves[c][i].ret_fun

\* a second step whose input, the first record, is not the initial trace
C5_Witness ==
  \E c \in Chains :
    /\ Len(moves[c]) >= 2
    /\ mh_chain[c][1] # call[c].trace
    /\ moves[c][2].trace = mh_chain[c][1]

\* C7: after every kernel step the current trace of the chain state is the
\* candidate trace of that step or its input trace, and the record the step
\* emitted is that same trace.
C7_CandidateOrInput ==
  \A c \in Chains : \A i \in Steps(c) :
    /\ mh_chain[c][i] \in {moves[c][i].new_trace, moves[c][i].trace}
    /\ i = Len(moves[c]) => carry[c][1].trace = mh_chain[c][i]
    /\ i < Len(moves[c]) => moves[c][i + 1].trace = mh_chain[c][i]

\* a step whose candidate differs from its input and was rejected
C7_Witness ==
  \E c \in Chains : \E i \in Steps(c) :
    /\ moves[c][i].new_trace # moves[c][i].trace
    /\ mh_chain[c][i] = moves[c][i].trace
    /\ carry[c][1].trace = mh_chain[c][Len(mh_chain[c])]

\* C8: a step whose acceptance log-ratio w - fw + bw evaluates to +inf
\* accepts the candidate, whatever the uniform draw.
C8_PosInfAccepts ==
  \A c \in Chains : \A i \in Steps(c) :
    LET m == moves[c][i]
    IN LogRatio(m.weight, m.fwd_weight, m.bwd_weight)[1] = "pinf" =>
         mh_chain[c][i] = m.new_trace /\ m.ret_fun = m.new_trace

\* steps with log-ratio +inf, one by overflow of finite weights, taken
\* with the draw u = 0 and with the largest draw
C8_Witness ==
  \E c \in Chains : \E i, j \in Steps(c) :
    /\ moves[c][i].alpha = PosInf
    /\ moves[c][j].alpha = PosInf
    /\ moves[c][i].u = 0
    /\ moves[c][j].u = MaxU
    /\ moves[c][j].weight.k = "fin"
    /\ moves[c][j].fwd_weight.k = "fin"
    /\ moves[c][j].bwd_weight.k = "fin"
    /\ moves[c][i].new_trace # moves[c][i].trace
    /\ mh_chain[c][i] = moves[c][i].new_trace

\* C2 as stated: for any proposal, every observed address has the same
\* value in the current trace before and after every step.
C2_ObservedUnchanged ==
  \A c \in Chains : \A i \in Steps(c) : \A x \in DOMAIN observations :
    mh_chain[c][i].choices[x] = moves[c][i].trace.choices[x]

\* C2 amended: when the choices the proposal proposed contain no observed
\* address, every observed address has the same value in the current trace
\* before the step, in the candidate and in the current trace after it.
C2_Amended ==
  \A c \in Chains : \A i \in Steps(c) :
    DOMAIN moves[c][i].fwd_choices \cap DOMAIN observations = {} =>
      \A x \in DOMAIN observations :
        /\ moves[c][i].new_trace.choices[x] = moves[c][i].trace.choices[x]
        /\ mh_chain[c][i].choices[x] = moves[c][i].trace.choices[x]

\* an accepted move that changed the trace, under observations, proposed
\* at unobserved addresses only
C2_Witness ==
  \E c \in Chains : \E i \in Steps(c) :
    /\ observations # EmptyChoices
    /\ DOMAIN moves[c][i].fwd_choices \cap DOMAIN observations = {}
    /\ mh_chain[c][i] # moves[c][i].trace

\* whether the model or the proposal raises in a step applied to trace tr
\* with key
StepRaises(tr, key) ==
  LET fwd == Propose(proposal, ProposeKey(key), <<tr>> \o proposal_args,
                     sampler)
      upd == Update(model, UpdateKey(key), tr, fwd.choices, NoChange(tr.args))
      bwd == Assess(proposal, upd.discard,
                    <<upd.new_trace>> \o proposal_args)
  IN fwd.raised \/ upd.raised \/ bwd.raised

\* C10: an error of the model or the proposal in a kernel step ends the
\* chain: the failing step and the later steps leave no record, the step is
\* not retried and mh returns nothing.
C10_FailureAborts ==
  \A c \in Chains :
    /\ raised[c] # <<>> =>
         /\ pc[c] = "raised"
         /\ result[c] = <<>>
         /\ Len(mh_chain[c]) = raised[c][1].step - 1
         /\ Len(moves[c]) = raised[c][1].step - 1
    /\ result[c] # <<>> => raised[c] = <<>>
    /\ \A i \in DOMAIN mh_chain[c] :
         ~StepRaises(IF i = 1 THEN call[c].trace ELSE mh_chain[c][i - 1],
                     Split(call[c].key, call[c].num_updates)[i])

\* a chain ended by an error in its second step, with a later step due
C10_Witness ==
  \E c \in Chains :
    /\ raised[c] # <<>>
    /\ raised[c][1].step = 2
    /\ call[c].num_updates > 2 \/ call[c].num_updates = MaxN
    /\ Len(mh_chain[c]) = 1
    /\ pc[c] = "raised"

\* ------------------------------------------------ two chains (SpecPar)
Min(a, b) == IF a < b THEN a ELSE b

\* C6: two runs of mh with the same seed, N, initial trace, model,
\* proposal, proposal arguments and observations produce the same records,
\* the same final trace and the same error, if any.
C6_Reproducible ==
  call["A"] = call["B"] =>
    /\ \A i \in 1..Min(Len(mh_chain["A"]), Len(mh_chain["B"])) :
         mh_chain["A"][i] = mh_chain["B"][i]
    /\ result["A"] # <<>> /\ result["B"] # <<>> => result["A"] = result["B"]
    /\ raised["A"] # <<>> /\ raised["B"] # <<>> => raised["A"] = raised["B"]
    /\ raised["A"] # <<>> => result["B"] = <<>>
    /\ raised["B"] # <<>> => result["A"] = <<>>

\* both runs returned, after two steps or more that changed the trace
C6_Witness ==
  /\ call["A"] = call["B"]
  /\ pc["A"] = "returned"
  /\ pc["B"] = "returned"
  /\ call["A"].num_updates >= 2
  /\ result["A"][1].trace # call["A"].trace

\* chain c run alone for n steps with the draws on record
RECURSIVE AloneState(_, _)
AloneState(c, n) ==
  IF n = 0
  THEN [ok |-> TRUE, chain |-> <<>>,
        carry |-> Carry(call[c].trace, model, proposal, proposal_args,
                        observations)]
  ELSE LET prev == AloneState(c, n - 1)
           key == Split(call[c].key, call[c].num_updates)[n]
       IN IF \/ ~prev.ok
             \/ <<ProposeKey(key), prev.carry.trace>> \notin DOMAIN sampler
             \/ UniformKey(key) \notin DOMAIN uniform
          THEN [prev EXCEPT !.ok = FALSE]
          ELSE LET r == metropolis_hastings_move(prev.carry, key, sampler,
                                                 uniform)
               IN IF r.raised # "none" THEN [prev EXCEPT !.ok = FALSE]
                  ELSE [ok |-> TRUE, chain |-> Append(prev.chain, r.y),
                        carry |-> r.carry]

\* C9: when two chains with different seeds interleave their steps, the
\* records and the final trace of each are those of the chain run alone.
C9_Independent ==
  call["A"].key # call["B"].key =>
    \A c \in Chains :
      LET alone == AloneState(c, Len(mh_chain[c]))
      IN /\ alone.ok
         /\ alone.chain = mh_chain[c]
         /\ carry[c] # <<>> => carry[c][1] = alone.carry
         /\ pc[c] = "returned" =>
              /\ Len(mh_chain[c]) = call[c].num_updates
              /\ result[c][1] = [trace |-> alone.carry.trace,
                                 chain |-> alone.chain]

\* two chains with different seeds, both returned after steps that
\* changed their traces
C9_Witness ==
  /\ call["A"].key # call["B"].key
  /\ pc["A"] = "returned"
  /\ pc["B"] = "returned"
  /\ Len(mh_chain["A"]) >= 1
  /\ Len(mh_chain["B"]) >= 2
  /\ result["A"][1].trace # call["A"].trace
  /\ result["B"][1].chain[1] # result["B"][1].trace

\* --------------------------------------------- run_inference (SpecInf)
\* C11: in run_inference the initial trace is drawn by the model's
\* constrained initialization before any kernel step, agrees with the
\* observations at every constrained address, is the trace the driver
\* starts from, and is drawn with a key other than the driver's.
C11_Initialization ==
  \A c \in Chains :
    IF pc[c] = "run_inference"
    THEN moves[c] = <<>> /\ mh_chain[c] = <<>> /\ inference[c].locals = <<>>
    ELSE LET loc == inference[c].locals[1]
         IN /\ \A x \in DOMAIN observations :
                 loc.tr.choices[x] = observations[x]
            /\ call[c].trace = loc.tr
            /\ carry[c] # <<>> /\ moves[c] = <<>> =>
                 carry[c][1].trace = loc.tr
            /\ moves[c] # <<>> => moves[c][1].trace = loc.tr
            /\ loc.importance_key # call[c].key
            /\ loc.importance_key = Append(inference[c].args.key, 1)

\* a chain started by run_inference under observations that has moved
\* away from its initial trace
C11_Witness ==
  \E c \in Chains :
    /\ pc[c] = "returned"
    /\ observations # EmptyChoices
    /\ inference[c].locals # <<>>
    /\ Len(moves[c]) >= 1
    /\ moves[c][1].trace = inference[c].locals[1].tr
    /\ result[c][1].trace # inference[c].locals[1].tr

\* --------------------------------------------------- one chain (Spec)
\* the key a key was split from
Parent(key) == SubSeq(key, 1, Len(key) - 1)

\* the keys a step consumed, one per random operation: the two splits,
\* propose, update and the uniform draw
Consumed(c, i) ==
  <<Parent(moves[c][i].propose_key), moves[c][i].propose_key,
    moves[c][i].update_key, moves[c][i].split_key,
    moves[c][i].uniform_key>>

\* C13: in every kernel step the key propose consumes is neither the key
\* the uniform draw consumes nor the key that key is split from, and no key
\* is consumed by two random operations of the step.
C13_IndependentSeeds ==
  \A c \in Chains : \A i \in Steps(c) :
    /\ moves[c][i].propose_key # moves[c][i].uniform_key
    /\ moves[c][i].propose_key # Parent(moves[c][i].uniform_key)
    /\ \A j, k \in 1..5 : j # k => Consumed(c, i)[j] # Consumed(c, i)[k]

\* C14: every kernel step leaves the model, proposal, proposal-arguments
\* and observations slots of the chain state as they were passed to mh;
\* only the current-trace slot can differ.
C14_FrameSlots ==
  \A c \in Chains :
    carry[c] # <<>> =>
      /\ carry[c][1].model = model
      /\ carry[c][1].proposal = proposal
      /\ carry[c][1].proposal_args = proposal_args
      /\ carry[c][1].observations = observations
      /\ DOMAIN carry[c][1] =
           {"trace", "model", "proposal", "proposal_args", "observations"}

\* a chain state after two steps, under observations, whose trace is no
\* longer the initial one
C14_Witness ==
  \E c \in Chains :
    /\ Len(moves[c]) >= 2
    /\ observations # EmptyChoices
    /\ carry[c][1].trace # call[c].trace

\* C16: a step whose log-ratio is -inf keeps its input trace, whatever the
\* uniform draw, the draw 0 (log 0 = -inf) included.
C16_NegInfRejects ==
  \A c \in Chains : \A i \in Steps(c) :
    LET m == moves[c][i]
    IN LogRatio(m.weight, m.fwd_weight, m.bwd_weight)[1] = "ninf" =>
         /\ mh_chain[c][i] = m.trace
         /\ m.ret_fun = m.trace
         /\ i = Len(moves[c]) => carry[c][1].trace = m.trace

\* steps with log-ratio -inf and a candidate that differs from the input,
\* one taken with the draw 0 and one with another draw
C16_Witness ==
  \E c \in Chains : \E i, j \in Steps(c) :
    /\ moves[c][i].alpha = NegInf
    /\ moves[c][j].alpha = NegInf
    /\ moves[c][i].u = 0
    /\ moves[c][j].u # 0
    /\ moves[c][i].new_trace # moves[c][i].trace
    /\ mh_chain[c][i] = moves[c][i].trace

\* --------------------------------------------- custom_mh (SpecInf)
\* C15: in a chain run through custom_mh every record has the values of
\* the initial trace at "b" and "y" and its model arguments.
C15_OnlyAChanges ==
  \A c \in Chains : \A i \in DOMAIN mh_chain[c] :
    /\ mh_chain[c][i].choices["b"] = call[c].trace.choices["b"]
    /\ mh_chain[c][i].choices["y"] = call[c].trace.choices["y"]
    /\ mh_chain[c][i].args = call[c].trace.args

\* a chain of custom_mh whose records differ from the initial trace and
\* from each other, at "a", with "b" not the value a reset would give
C15_Witness ==
  \E c \in Chains :
    /\ Len(mh_chain[c]) >= 2
    /\ inference[c].locals # <<>>
    /\ call[c].trace.choices["b"] = 1
    /\ mh_chain[c][1].choices["a"] # call[c].trace.choices["a"]
    /\ mh_chain[c][2].choices["a"] # mh_chain[c][1].choices["a"]

====
